---- MODULE Spec2Model ----
(***************************************************************************)
(* A model of kule (src/kule/kule.py): a REST gateway that maps            *)
(* GET/POST/PUT/PATCH/DELETE on /:collection and /:collection/:pk to       *)
(* operations on the collections of a MongoDB database.                    *)
(*                                                                         *)
(* The store is a function from collection names to sequences of documents *)
(* (natural order); a document is a function from field names to values    *)
(* that always carries "_id".  ObjectIds are the numbers 1..MaxOid, handed *)
(* out in increasing order and never reused; their string form is the      *)
(* decimal numeral, so that ObjectId(pk) and jsonify are real conversions. *)
(***************************************************************************)
EXTENDS Integers, Sequences, FiniteSets, TLC

VARIABLES
    collections,  \* self.collections: the whitelist, a list of names
    attrs,        \* the attributes a Kule (sub)class defines beyond its base
    routes,       \* self.app's route table, in registration order
    built,        \* get_bottle_app has run
    store,        \* self.connection: collection name -> sequence of documents
    nextOid,      \* the next ObjectId the driver generates
    last,         \* the request served last and its response
    inflight      \* concurrent serving: each worker's request in progress

vars == <<collections, attrs, routes, built, store, nextOid, last, inflight>>

-----------------------------------------------------------------------------
(* Bounds and input domains *)

MaxOid == 2

Names == {"widgets", "gadgets"}

Verbs == <<"get", "post", "put", "patch", "delete">>

Cards == {"list", "detail"}

Range(s) == {s[i] : i \in DOMAIN s}

None == [none |-> TRUE]

\* ObjectId 0 is well-formed but is never handed out; "zz" is malformed.
Oids == 0 .. MaxOid

PkStrings == {ToString(n) : n \in Oids} \cup {"zz"}

\* Submitted JSON bodies: field sets that carry no "_id" of their own.
Bodies == {[a |-> 2], [a |-> 1, b |-> 3]}

\* Raw query parameters; "" is an absent parameter.
LimitStrings == {"", "abc", "0", "1"}

OffsetStrings == {"", "1"}

QueryStrings == {"", "not-json", "{\"a\":1}", "{\"b\":3}"}

-----------------------------------------------------------------------------
(* Conversions *)

WellFormed(pk) == \E n \in Oids : ToString(n) = pk

ObjectId(pk) == CHOOSE n \in Oids : ToString(n) = pk

StrOfOid(oid) == ToString(oid)

jsonify(doc) ==
    [k \in DOMAIN doc |-> IF k = "_id" THEN StrOfOid(doc[k]) ELSE doc[k]]

IsInt(s) == \E n \in 0 .. 9 : ToString(n) = s

int_or_default(value, default) ==
    IF IsInt(value) THEN CHOOSE n \in 0 .. 9 : ToString(n) = value ELSE default

JsonValid(s) == s \in {"{}", "{\"a\":1}", "{\"b\":3}"}

json_loads(s) ==
    CASE s = "{\"a\":1}" -> [a |-> 1]
      [] s = "{\"b\":3}" -> [b |-> 3]
      [] OTHER -> <<>>

-----------------------------------------------------------------------------
(* The store's operations, as the handlers call them *)

Matches(doc, filter) ==
    \A k \in DOMAIN filter : k \in DOMAIN doc /\ doc[k] = filter[k]

HasId(doc, oid) == doc["_id"] = oid

find(coll, filter) == SelectSeq(coll, LAMBDA d : Matches(d, filter))

find_one(coll, oid) ==
    LET hits == SelectSeq(coll, LAMBDA d : HasId(d, oid))
    IN  IF hits = <<>> THEN None ELSE Head(hits)

count(cursor) == Len(cursor)

cursor_skip(cursor, n) ==
    IF n >= Len(cursor) THEN <<>> ELSE SubSeq(cursor, n + 1, Len(cursor))

\* A limit of 0 is no limit.
cursor_limit(cursor, n) ==
    IF n = 0 \/ n >= Len(cursor) THEN cursor ELSE SubSeq(cursor, 1, n)

Replaced(doc, body) ==
    [k \in {"_id"} \cup DOMAIN body |-> IF k = "_id" THEN doc["_id"] ELSE body[k]]

SetFields(doc, fields) ==
    [k \in DOMAIN doc \cup DOMAIN fields |->
        IF k \in DOMAIN fields THEN fields[k] ELSE doc[k]]

\* collection.update(spec, document): the matching document, if any, is
\* replaced; nothing is inserted when none matches.
update(coll, oid, body) ==
    [i \in DOMAIN coll |-> IF HasId(coll[i], oid) THEN Replaced(coll[i], body) ELSE coll[i]]

\* Faulty variant: the fields replace the document instead of being set in it.
update_set_replace(coll, oid, fields) == update(coll, oid, fields)

\* collection.update(spec, {"$set": fields})
update_set(coll, oid, fields) ==
    [i \in DOMAIN coll |-> IF HasId(coll[i], oid) THEN SetFields(coll[i], fields) ELSE coll[i]]

remove(coll, oid) == SelectSeq(coll, LAMBDA d : ~HasId(d, oid))

WithId(body, oid) ==
    [k \in {"_id"} \cup DOMAIN body |-> IF k = "_id" THEN oid ELSE body[k]]

\* Faulty variant: the document is stored without the submitted fields.
insert_id_only(coll, body, oid) == Append(coll, [_id |-> oid])

insert(coll, body, oid) == Append(coll, WithId(body, oid))

Ids(coll) == {coll[i]["_id"] : i \in DOMAIN coll}

-----------------------------------------------------------------------------
(* Store Gateway, Bundler Resolver, Error Mapper *)

\* get_collection aborts with 403 unless this holds.
Permitted(collection) ==
    ~(collections # <<>> /\ collection \notin Range(collections))

build_bundle(data) == data

\* A collection-specific bundler of a subclass: adds a computed field.
build_collection_bundle(data) == SetFields(data, [computed |-> TRUE])

\* Faulty variant: a bundler of any collection is applied to every collection.
get_bundler_any(name, data) ==
    IF \E n \in Names : <<"build", n, "bundle">> \in attrs
    THEN build_collection_bundle(data)
    ELSE build_bundle(data)

get_bundler(name, data) ==
    IF <<"build", name, "bundle">> \in attrs
    THEN build_collection_bundle(data)
    ELSE build_bundle(data)

ErrorMessage(code) ==
    CASE code = 500 -> "Internal Server Error."
      [] code = 404 -> "Document Not Found."
      [] code = 501 -> "Not Implemented."
      [] code = 405 -> "Method Not Allowed."
      [] code = 403 -> "Forbidden."
      [] code = 400 -> "Bad request."

error(code) == [error |-> code, message |-> ErrorMessage(code)]

\* abort(code), or an exception the handler lets escape (code 500): the
\* response is the error envelope and the store is the one passed in.
Abort(st, code) == [store |-> st, status |-> code, body |-> error(code), done |-> TRUE]

-----------------------------------------------------------------------------
(* Resource Dispatcher *)

Wildcard == ":collection"

\* The handlers class Kule defines, as <<verb, cardinality>>.
GenericAttrs ==
    {<<"get", "list">>, <<"post", "list">>, <<"get", "detail">>,
     <<"put", "detail">>, <<"patch", "detail">>, <<"delete", "detail">>}

GenericTarget(method, card) ==
    IF <<method, card>> \in GenericAttrs THEN <<method, card>> ELSE <<"not_implemented">>

Route(coll, card, method, target) ==
    [rule |-> [coll |-> coll, card |-> card], method |-> method, target |-> target]

RECURSIVE MagicalViews(_, _)
MagicalViews(method, colls) ==
    IF colls = <<>> THEN <<>>
    ELSE LET collection == Head(colls)
             list_view == IF <<method, collection, "list">> \in attrs
                          THEN <<Route(collection, "list", method, <<method, collection, "list">>)>>
                          ELSE <<>>
             detail_view == IF <<method, collection, "detail">> \in attrs
                            THEN <<Route(collection, "detail", method, <<method, collection, "detail">>)>>
                            ELSE <<>>
         IN  list_view \o detail_view \o MagicalViews(method, Tail(colls))

RECURSIVE RoutesOf(_)
RoutesOf(methods) ==
    IF methods = <<>> THEN <<>>
    ELSE LET method == Head(methods)
         IN  <<Route(Wildcard, "list", method, GenericTarget(method, "list")),
               Route(Wildcard, "detail", method, GenericTarget(method, "detail"))>>
             \o MagicalViews(method, collections)
             \o RoutesOf(Tail(methods))

dispatch_views == RoutesOf(Verbs)

\* A rule with no wildcard segment is static: only "/<collection>".
IsStatic(rule) == rule.coll # Wildcard /\ rule.card = "list"

RuleMatches(rule, coll, card) ==
    rule.card = card /\ (rule.coll = Wildcard \/ rule.coll = coll)

\* The router (bottle, looked up by method first): for the request's method,
\* a static rule equal to the path, else the first dynamic rule, in
\* registration order, that matches it.
match(rt, method, coll, card) ==
    LET static == {i \in DOMAIN rt : rt[i].method = method /\ IsStatic(rt[i].rule)
                                      /\ RuleMatches(rt[i].rule, coll, card)}
        dynamic == {i \in DOMAIN rt : rt[i].method = method /\ ~IsStatic(rt[i].rule)
                                       /\ RuleMatches(rt[i].rule, coll, card)}
        First(S) == CHOOSE i \in S : \A j \in S : i <= j
    IN  IF static # {} THEN rt[First(static)].target
        ELSE IF dynamic # {} THEN rt[First(dynamic)].target
        ELSE <<"no_route">>

-----------------------------------------------------------------------------
(* CRUD handlers.  Each returns the store it leaves and the response. *)

get_detail(st, collection, pk, status) ==
    IF ~Permitted(collection) THEN Abort(st, 403)
    ELSE IF ~WellFormed(pk) THEN Abort(st, 500)
    ELSE LET data == find_one(st[collection], ObjectId(pk))
         IN  IF data = None THEN Abort(st, 404)
             ELSE [store |-> st, status |-> status,
                   body |-> jsonify(get_bundler(collection, data)), done |-> TRUE]

put_detail(st, collection, pk, json) ==
    IF ~Permitted(collection) THEN Abort(st, 403)
    ELSE IF ~WellFormed(pk) THEN Abort(st, 500)
    ELSE [store |-> [st EXCEPT ![collection] = update(@, ObjectId(pk), json)],
          status |-> 202, body |-> json, done |-> TRUE]

\* patch_detail up to and including its update; done is FALSE when the
\* handler goes on to get_detail.
patch_update(st, collection, pk, json) ==
    IF ~Permitted(collection) THEN Abort(st, 403)
    ELSE IF ~WellFormed(pk) THEN Abort(st, 500)
    ELSE [store |-> [st EXCEPT ![collection] = update_set(@, ObjectId(pk), json)],
          status |-> 202, body |-> None, done |-> FALSE]

patch_detail(st, collection, pk, json) ==
    LET u == patch_update(st, collection, pk, json)
    IN  IF u.done THEN u ELSE get_detail(u.store, collection, pk, u.status)

\* Faulty variant: a delete of a missing document is answered Not Found.
delete_detail_strict(st, collection, pk) ==
    IF ~Permitted(collection) THEN Abort(st, 403)
    ELSE IF ~WellFormed(pk) THEN Abort(st, 500)
    ELSE IF find_one(st[collection], ObjectId(pk)) = None THEN Abort(st, 404)
    ELSE [store |-> [st EXCEPT ![collection] = remove(@, ObjectId(pk))],
          status |-> 204, body |-> None, done |-> TRUE]

delete_detail(st, collection, pk) ==
    IF ~Permitted(collection) THEN Abort(st, 403)
    ELSE IF ~WellFormed(pk) THEN Abort(st, 500)
    ELSE [store |-> [st EXCEPT ![collection] = remove(@, ObjectId(pk))],
          status |-> 204, body |-> None, done |-> TRUE]

post_list(st, collection, json, inserted) ==
    IF ~Permitted(collection) THEN Abort(st, 403)
    ELSE [store |-> [st EXCEPT ![collection] = insert(@, json, inserted)],
          status |-> 201, body |-> jsonify([_id |-> inserted]), done |-> TRUE]

get_query(query) == IF query # "" THEN json_loads(query) ELSE <<>>

\* Faulty variant: total_count counts the page instead of the whole cursor.
get_list_meta_page(st, collection, lim, off, query) ==
    IF ~Permitted(collection) THEN Abort(st, 403)
    ELSE IF query # "" /\ ~JsonValid(query) THEN Abort(st, 500)
    ELSE LET cursor == find(st[collection], get_query(query))
         IN  [store |-> st, status |-> 200,
              body |-> [limit |-> int_or_default(lim, 20),
                        offset |-> int_or_default(off, 0),
                        total_count |-> count(cursor_limit(
                            cursor_skip(cursor, int_or_default(off, 0)),
                            int_or_default(lim, 20)))],
              done |-> FALSE]

\* get_list up to and including cursor.count(); done is FALSE when the
\* handler goes on to read the page.
get_list_meta(st, collection, lim, off, query) ==
    IF ~Permitted(collection) THEN Abort(st, 403)
    ELSE IF query # "" /\ ~JsonValid(query) THEN Abort(st, 500)
    ELSE LET cursor == find(st[collection], get_query(query))
         IN  [store |-> st, status |-> 200,
              body |-> [limit |-> int_or_default(lim, 20),
                        offset |-> int_or_default(off, 0),
                        total_count |-> count(cursor)],
              done |-> FALSE]

get_list_objects(st, collection, meta, query) ==
    LET cursor == find(st[collection], get_query(query))
        objects == cursor_limit(cursor_skip(cursor, meta.offset), meta.limit)
    IN  [store |-> st, status |-> 200,
         body |-> [meta |-> meta,
                   objects |-> [i \in DOMAIN objects |->
                                   jsonify(get_bundler(collection, objects[i]))]],
         done |-> TRUE]

get_list(st, collection, lim, off, query) ==
    LET m == get_list_meta(st, collection, lim, off, query)
    IN  IF m.done THEN m ELSE get_list_objects(m.store, collection, m.body, query)

not_implemented(st) == Abort(st, 501)

\* A collection-specific view of a subclass: its response is its own.
magical_view(st, target) ==
    [store |-> st, status |-> 200, body |-> [view |-> target], done |-> TRUE]

-----------------------------------------------------------------------------
(* Requests and configurations *)

Request(method, card, collection, pk, json, lim, off, query) ==
    [method |-> method, card |-> card, collection |-> collection, pk |-> pk,
     json |-> json, limit |-> lim, offset |-> off, query |-> query]

NoRequest == Request("", "", "", "", None, "", "", "")

Whitelists == {<<>>, <<"widgets">>, <<"widgets", "gadgets">>}

Bundlers == {{}, {<<"build", "widgets", "bundle">>}}

\* What is constructed: Kule itself or a subclass with a bundler for
\* widgets, over each whitelist; and subclasses with magical views.
Configs ==
    {[collections |-> w, attrs |-> b] : w \in Whitelists, b \in Bundlers}
    \cup {[collections |-> <<"widgets">>, attrs |-> {<<m, "widgets", k>>}] :
             m \in Range(Verbs), k \in Cards}
    \cup {[collections |-> <<"widgets", "gadgets">>,
           attrs |-> {<<"get", "gadgets", "list">>, <<"get", "gadgets", "detail">>}],
          [collections |-> <<>>, attrs |-> {<<"get", "widgets", "list">>}]}

\* No request has been answered and not yet replied to.
NoLast == [req |-> NoRequest, handler |-> <<"none">>, status |-> 0,
           body |-> None, pre |-> [n \in Names |-> <<>>]]

Clients == {1, 2}

Idle == [pc |-> "idle", req |-> NoRequest, status |-> 0, body |-> None, wrote |-> FALSE]

InitWith(configs) ==
    /\ \E c \in configs : collections = c.collections /\ attrs = c.attrs
    /\ routes = <<>>
    /\ built = FALSE
    /\ store = [n \in Names |-> <<>>]
    /\ nextOid = 1
    /\ last = NoLast
    /\ inflight = [c \in Clients |-> Idle]

Init == InitWith(Configs)

-----------------------------------------------------------------------------
(* Serving one request at a time *)

GetBottleApp ==
    /\ ~built
    /\ routes' = dispatch_views
    /\ built' = TRUE
    /\ UNCHANGED <<collections, attrs, store, nextOid, last, inflight>>

\* The server takes one request at a time: the route table is built and the
\* request before has been replied to.
Accepting == built /\ last = NoLast

\* The handler the router chose ran to its end and answered r.
Respond(req, handler, r) ==
    /\ store' = r.store
    /\ last' = [req |-> req, handler |-> handler, status |-> r.status,
                body |-> r.body, pre |-> store]
    /\ UNCHANGED <<collections, attrs, routes, built, inflight>>

Routed(method, collection, card, target) ==
    match(routes, method, collection, card) = target

GetList ==
    /\ Accepting
    /\ \E c \in Names, lim \in LimitStrings, off \in OffsetStrings, q \in QueryStrings :
        /\ Routed("get", c, "list", <<"get", "list">>)
        /\ Respond(Request("get", "list", c, "", None, lim, off, q),
                   <<"get", "list">>, get_list(store, c, lim, off, q))
        /\ UNCHANGED nextOid

PostList ==
    /\ Accepting
    /\ \E c \in Names, json \in Bodies :
        /\ Routed("post", c, "list", <<"post", "list">>)
        /\ Permitted(c) => nextOid <= MaxOid
        /\ Respond(Request("post", "list", c, "", json, "", "", ""),
                   <<"post", "list">>, post_list(store, c, json, nextOid))
        /\ nextOid' = IF Permitted(c) THEN nextOid + 1 ELSE nextOid

GetDetail ==
    /\ Accepting
    /\ \E c \in Names, pk \in PkStrings :
        /\ Routed("get", c, "detail", <<"get", "detail">>)
        /\ Respond(Request("get", "detail", c, pk, None, "", "", ""),
                   <<"get", "detail">>, get_detail(store, c, pk, 200))
        /\ UNCHANGED nextOid

PutDetail ==
    /\ Accepting
    /\ \E c \in Names, pk \in PkStrings, json \in Bodies :
        /\ Routed("put", c, "detail", <<"put", "detail">>)
        /\ Respond(Request("put", "detail", c, pk, json, "", "", ""),
                   <<"put", "detail">>, put_detail(store, c, pk, json))
        /\ UNCHANGED nextOid

PatchDetail ==
    /\ Accepting
    /\ \E c \in Names, pk \in PkStrings, json \in Bodies :
        /\ Routed("patch", c, "detail", <<"patch", "detail">>)
        /\ Respond(Request("patch", "detail", c, pk, json, "", "", ""),
                   <<"patch", "detail">>, patch_detail(store, c, pk, json))
        /\ UNCHANGED nextOid

DeleteDetail ==
    /\ Accepting
    /\ \E c \in Names, pk \in PkStrings :
        /\ Routed("delete", c, "detail", <<"delete", "detail">>)
        /\ Respond(Request("delete", "detail", c, pk, None, "", "", ""),
                   <<"delete", "detail">>, delete_detail(store, c, pk))
        /\ UNCHANGED nextOid

NotImplemented ==
    /\ Accepting
    /\ \E m \in Range(Verbs), k \in Cards, c \in Names, pk \in PkStrings :
        /\ k = "list" => pk = "0"
        /\ Routed(m, c, k, <<"not_implemented">>)
        /\ Respond(Request(m, k, c, IF k = "list" THEN "" ELSE pk, None, "", "", ""),
                   <<"not_implemented">>, not_implemented(store))
        /\ UNCHANGED nextOid

MagicalView ==
    /\ Accepting
    /\ \E m \in Range(Verbs), k \in Cards, c \in Names, pk \in PkStrings :
        /\ k = "list" => pk = "0"
        /\ <<m, c, k>> \in attrs
        /\ Routed(m, c, k, <<m, c, k>>)
        /\ Respond(Request(m, k, c, IF k = "list" THEN "" ELSE pk, None, "", "", ""),
                   <<m, c, k>>, magical_view(store, <<m, c, k>>))
        /\ UNCHANGED nextOid

\* The response is written to the client and the server takes the next
\* request.
Reply ==
    /\ last # NoLast
    /\ last' = NoLast
    /\ UNCHANGED <<collections, attrs, routes, built, store, nextOid, inflight>>

Next ==
    \/ GetBottleApp
    \/ GetList
    \/ PostList
    \/ GetDetail
    \/ PutDetail
    \/ PatchDetail
    \/ DeleteDetail
    \/ NotImplemented
    \/ MagicalView
    \/ Reply

Spec == Init /\ [][Next]_vars

-----------------------------------------------------------------------------
(* Serving requests concurrently: several workers share the store, and a   *)
(* handler's store calls are its atomic steps.  inflight[w].wrote records  *)
(* whether a store call of w's request changed the store.                  *)

ConcConfigs == {[collections |-> <<"widgets">>, attrs |-> {}]}

ConcPks == {"1"}

InitConc == InitWith(ConcConfigs)

IdleWorker(w) == built /\ inflight[w].pc = "idle"

\* Worker w's request went on to pc after a store call that left r.
Step(w, pc, req, r) ==
    /\ store' = r.store
    /\ inflight' = [inflight EXCEPT ![w] =
           [pc |-> pc, req |-> req, status |-> r.status, body |-> r.body,
            wrote |-> inflight[w].wrote \/ r.store # store]]
    /\ UNCHANGED <<collections, attrs, routes, built, last>>

CGetList(w) ==
    /\ IdleWorker(w)
    /\ \E c \in Names :
        LET r == get_list_meta(store, c, "", "", "")
        IN  /\ Routed("get", c, "list", <<"get", "list">>)
            /\ Step(w, IF r.done THEN "done" ELSE "get_list_objects",
                    Request("get", "list", c, "", None, "", "", ""), r)
            /\ UNCHANGED nextOid

CGetListObjects(w) ==
    /\ inflight[w].pc = "get_list_objects"
    /\ Step(w, "done", inflight[w].req,
            get_list_objects(store, inflight[w].req.collection, inflight[w].body,
                             inflight[w].req.query))
    /\ UNCHANGED nextOid

CPostList(w) ==
    /\ IdleWorker(w)
    /\ \E c \in Names, json \in Bodies :
        /\ Routed("post", c, "list", <<"post", "list">>)
        /\ Permitted(c) => nextOid <= MaxOid
        /\ Step(w, "done", Request("post", "list", c, "", json, "", "", ""),
                post_list(store, c, json, nextOid))
        /\ nextOid' = IF Permitted(c) THEN nextOid + 1 ELSE nextOid

CGetDetail(w) ==
    /\ IdleWorker(w)
    /\ \E c \in Names, pk \in ConcPks :
        /\ Routed("get", c, "detail", <<"get", "detail">>)
        /\ Step(w, "done", Request("get", "detail", c, pk, None, "", "", ""),
                get_detail(store, c, pk, 200))
        /\ UNCHANGED nextOid

CPutDetail(w) ==
    /\ IdleWorker(w)
    /\ \E c \in Names, pk \in ConcPks, json \in Bodies :
        /\ Routed("put", c, "detail", <<"put", "detail">>)
        /\ Step(w, "done", Request("put", "detail", c, pk, json, "", "", ""),
                put_detail(store, c, pk, json))
        /\ UNCHANGED nextOid

CPatchUpdate(w) ==
    /\ IdleWorker(w)
    /\ \E c \in Names, pk \in ConcPks, json \in Bodies :
        LET r == patch_update(store, c, pk, json)
        IN  /\ Routed("patch", c, "detail", <<"patch", "detail">>)
            /\ Step(w, IF r.done THEN "done" ELSE "get_detail",
                    Request("patch", "detail", c, pk, json, "", "", ""), r)
            /\ UNCHANGED nextOid

\* patch_detail's closing call of get_detail
CPatchGetDetail(w) ==
    /\ inflight[w].pc = "get_detail"
    /\ Step(w, "done", inflight[w].req,
            get_detail(store, inflight[w].req.collection, inflight[w].req.pk,
                       inflight[w].status))
    /\ UNCHANGED nextOid

CDeleteDetail(w) ==
    /\ IdleWorker(w)
    /\ \E c \in Names, pk \in ConcPks :
        /\ Routed("delete", c, "detail", <<"delete", "detail">>)
        /\ Step(w, "done", Request("delete", "detail", c, pk, None, "", "", ""),
                delete_detail(store, c, pk))
        /\ UNCHANGED nextOid

CNotImplemented(w) ==
    /\ IdleWorker(w)
    /\ \E m \in Range(Verbs), k \in Cards, c \in Names :
        /\ Routed(m, c, k, <<"not_implemented">>)
        /\ Step(w, "done",
                Request(m, k, c, IF k = "list" THEN "" ELSE "1", None, "", "", ""),
                not_implemented(store))
        /\ UNCHANGED nextOid

CReply(w) ==
    /\ inflight[w].pc = "done"
    /\ inflight' = [inflight EXCEPT ![w] = Idle]
    /\ UNCHANGED <<collections, attrs, routes, built, store, nextOid, last>>

NextConc ==
    \/ GetBottleApp
    \/ \E w \in Clients : CGetList(w)
    \/ \E w \in Clients : CGetListObjects(w)
    \/ \E w \in Clients : CPostList(w)
    \/ \E w \in Clients : CGetDetail(w)
    \/ \E w \in Clients : CPutDetail(w)
    \/ \E w \in Clients : CPatchUpdate(w)
    \/ \E w \in Clients : CPatchGetDetail(w)
    \/ \E w \in Clients : CDeleteDetail(w)
    \/ \E w \in Clients : CNotImplemented(w)
    \/ \E w \in Clients : CReply(w)

SpecConc == InitConc /\ [][NextConc]_vars

-----------------------------------------------------------------------------
(* Properties *)

Answered == last # NoLast

Bundled(c) == <<"build", c, "bundle">> \in attrs

\* Response document o is stored document d with "_id" rendered and no
\* field added, changed or dropped.
RendersPlain(o, d) ==
    /\ DOMAIN o = DOMAIN d
    /\ \A k \in DOMAIN d \ {"_id"} : o[k] = d[k]
    /\ o["_id"] = StrOfOid(d["_id"])

\* Response document o is stored document d with the computed field added.
RendersBundled(o, d) ==
    /\ DOMAIN o = DOMAIN d \cup {"computed"}
    /\ o["computed"] = TRUE
    /\ \A k \in DOMAIN d \ {"_id"} : o[k] = d[k]
    /\ o["_id"] = StrOfOid(d["_id"])

\* Every document of before, except the one with oid in collection c, is a
\* document of after.
OthersKept(before, after, c, oid) ==
    \A n \in Names : \A i \in DOMAIN before[n] :
        (n # c \/ before[n][i]["_id"] # oid)
            => \E j \in DOMAIN after[n] : after[n][j] = before[n][i]

\* C1: with a non-empty whitelist, every request for a collection that is not
\* in it is answered 403 Forbidden, whatever the verb and the cardinality,
\* the pairs without a generic handler included.
C1_DeniedWhateverVerb ==
    (Answered /\ collections # <<>> /\ last.req.collection \notin Range(collections))
        => last.status = 403

\* C2: a list request whose query parameter is not JSON, and a detail,
\* replace or patch request whose pk is malformed, are answered 400 with the
\* "Bad request." envelope and with no other status.
C2_MalformedIsBadRequest ==
    (/\ Answered
     /\ Permitted(last.req.collection)
     /\ \/ /\ last.handler = <<"get", "list">>
           /\ last.req.query # ""
           /\ ~JsonValid(last.req.query)
        \/ /\ last.handler \in {<<"get", "detail">>, <<"put", "detail">>, <<"patch", "detail">>}
           /\ ~WellFormed(last.req.pk))
        => last.status = 400 /\ last.body = error(400)

\* C3: a PUT for a well-formed pk that identifies no document of a permitted
\* collection is answered 404 Not Found, not 202.
C3_PutMissingIsNotFound ==
    (/\ last.handler = <<"put", "detail">>
     /\ Permitted(last.req.collection)
     /\ WellFormed(last.req.pk)
     /\ ObjectId(last.req.pk) \notin Ids(last.pre[last.req.collection]))
        => last.status = 404

\* C4: a PATCH with fields P of an existing document D of a permitted
\* collection is answered 202; the stored document is D with exactly the
\* fields of P overwritten or added and every other field, _id included,
\* untouched; no other document changes; the response body is the bundled
\* form of the merged document and a following detail read returns it.
C4_PatchMerges ==
    LET c == last.req.collection
        pk == last.req.pk
        P == last.req.json
    IN  (/\ last.handler = <<"patch", "detail">>
         /\ Permitted(c)
         /\ WellFormed(pk)
         /\ ObjectId(pk) \in Ids(last.pre[c]))
        => LET D == find_one(last.pre[c], ObjectId(pk))
               M == find_one(store[c], ObjectId(pk))
               read == get_detail(store, c, pk, 200)
           IN  /\ last.status = 202
               /\ M # None
               /\ DOMAIN M = DOMAIN D \cup DOMAIN P
               /\ \A k \in DOMAIN P : M[k] = P[k]
               /\ \A k \in DOMAIN D \ DOMAIN P : M[k] = D[k]
               /\ M["_id"] = D["_id"]
               /\ \A n \in Names : Len(store[n]) = Len(last.pre[n])
               /\ OthersKept(last.pre, store, c, ObjectId(pk))
               /\ last.body = jsonify(get_bundler(c, M))
               /\ read.status = 200
               /\ read.body = last.body

C4_Witness ==
    /\ last.handler = <<"patch", "detail">>
    /\ last.status = 202
    /\ last.req.json = [a |-> 2]
    /\ WellFormed(last.req.pk)
    /\ find_one(last.pre[last.req.collection], ObjectId(last.req.pk))
           = [_id |-> ObjectId(last.req.pk), a |-> 1, b |-> 3]
    /\ find_one(store[last.req.collection], ObjectId(last.req.pk))
           = [_id |-> ObjectId(last.req.pk), a |-> 2, b |-> 3]

\* C5: a DELETE on a permitted collection is answered 204 with an empty body
\* whether or not the document exists; afterwards the document is absent and
\* every other document is kept; deleting a missing pk leaves the store as it
\* was, a second delete changes nothing, and a detail read of the pk is
\* answered 404.
C5_DeleteIdempotent ==
    LET c == last.req.collection
        pk == last.req.pk
    IN  (last.handler = <<"delete", "detail">> /\ Permitted(c) /\ WellFormed(pk))
        => LET again == delete_detail(store, c, pk)
           IN  /\ last.status = 204
               /\ last.body = None
               /\ ObjectId(pk) \notin Ids(store[c])
               /\ ObjectId(pk) \notin Ids(last.pre[c]) => store = last.pre
               /\ OthersKept(last.pre, store, c, ObjectId(pk))
               /\ again.status = 204
               /\ again.store = store
               /\ get_detail(store, c, pk, 200).status = 404

C5_Witness ==
    /\ last.handler = <<"delete", "detail">>
    /\ last.status = 204
    /\ WellFormed(last.req.pk)
    /\ ObjectId(last.req.pk) \in Ids(last.pre[last.req.collection])
    /\ store[last.req.collection] # <<>>

\* C6: a POST of body B to a permitted collection is answered 201 with
\* {_id: id}, where id is the id of no document that was in the collection; a
\* detail read by that id is answered 200 with a document that has every
\* field of B and the _id; the documents that existed are unchanged.
C6_CreateRoundTrip ==
    LET c == last.req.collection
        B == last.req.json
    IN  (last.handler = <<"post", "list">> /\ Permitted(c))
        => /\ last.status = 201
           /\ DOMAIN last.body = {"_id"}
           /\ LET id == last.body["_id"]
                  read == get_detail(store, c, id, 200)
              IN  /\ WellFormed(id)
                  /\ ObjectId(id) \notin Ids(last.pre[c])
                  /\ read.status = 200
                  /\ "_id" \in DOMAIN read.body
                  /\ read.body["_id"] = id
                  /\ \A k \in DOMAIN B : k \in DOMAIN read.body /\ read.body[k] = B[k]
           /\ \A n \in Names : \A i \in DOMAIN last.pre[n] :
                  i \in DOMAIN store[n] /\ store[n][i] = last.pre[n][i]

C6_Witness ==
    /\ last.handler = <<"post", "list">>
    /\ last.status = 201
    /\ last.pre[last.req.collection] # <<>>
    /\ last.req.json = [a |-> 1, b |-> 3]

\* C7: a list of a permitted collection with a well-formed or absent query
\* is answered 200 with meta.total_count the number of all documents of the
\* collection that match the filter, whatever limit and offset are, and with
\* meta.limit and meta.offset the parsed values, 20 and 0 when absent; on an
\* empty collection with default pagination the body is
\* {meta: {limit: 20, offset: 0, total_count: 0}, objects: []}.
C7_ListTotalCount ==
    LET r == last.req
        c == last.req.collection
        Parsed(s, d) == CASE s = "0" -> 0 [] s = "1" -> 1 [] OTHER -> d
    IN  (last.handler = <<"get", "list">> /\ Permitted(c)
            /\ (r.query = "" \/ JsonValid(r.query)))
        => /\ last.status = 200
           /\ last.body.meta.total_count =
                  Cardinality({i \in DOMAIN last.pre[c] :
                                  Matches(last.pre[c][i], get_query(r.query))})
           /\ last.body.meta.limit = Parsed(r.limit, 20)
           /\ last.body.meta.offset = Parsed(r.offset, 0)
           /\ (last.pre[c] = <<>> /\ r.limit = "" /\ r.offset = "")
                  => last.body = [meta |-> [limit |-> 20, offset |-> 0, total_count |-> 0],
                                  objects |-> <<>>]

C7_Witness ==
    /\ last.handler = <<"get", "list">>
    /\ last.status = 200
    /\ last.body.meta.total_count = 2
    /\ Len(last.body.objects) = 1

\* C8: every document of a list or detail response of the generic handlers
\* for a collection with a bundler build_<collection>_bundle is that
\* bundler's output, with its computed field; for any other collection it is
\* the stored document with no field added, changed or dropped.
C8_BundlerPerCollection ==
    LET c == last.req.collection
        Renders(o, d) == IF Bundled(c) THEN RendersBundled(o, d) ELSE RendersPlain(o, d)
    IN  /\ (last.handler = <<"get", "detail">> /\ last.status = 200)
            => Renders(last.body, find_one(last.pre[c], ObjectId(last.req.pk)))
        /\ (last.handler = <<"get", "list">> /\ last.status = 200)
            => \A i \in DOMAIN last.body.objects :
                   \E j \in DOMAIN last.pre[c] :
                       Renders(last.body.objects[i], last.pre[c][j])

C8_Witness ==
    /\ last.handler = <<"get", "list">>
    /\ last.status = 200
    /\ last.req.collection = "widgets"
    /\ Bundled("widgets")
    /\ ~Bundled("gadgets")
    /\ store["gadgets"] # <<>>
    /\ Len(last.body.objects) >= 1

\* C9: once the route table is built, the wildcard route of each of the ten
\* verb/cardinality pairs is registered to the generic handler, or to the
\* Not Implemented handler when there is none; and a request to a declared
\* collection's literal path is handled by the collection's own handler when
\* one is defined and by that generic target otherwise.
C9_OverridesTakePrecedence ==
    built =>
        /\ \A m \in Range(Verbs), k \in Cards :
               \E i \in DOMAIN routes :
                   routes[i] = Route(Wildcard, k, m, GenericTarget(m, k))
        /\ \A m \in Range(Verbs), k \in Cards, c \in Range(collections) :
               match(routes, m, c, k) =
                   IF <<m, c, k>> \in attrs THEN <<m, c, k>> ELSE GenericTarget(m, k)

\* C10: a request answered 403, 404 or 501 has itself changed no document of
\* the store, also when other requests run between its store calls.
C10_ErrorMeansNoEffect ==
    \A w \in Clients :
        (inflight[w].pc = "done" /\ inflight[w].status \in {403, 404, 501})
            => ~inflight[w].wrote

====
